---- MODULE Spec2Model ----
(***************************************************************************)
(* A model of the library catalog's record service (BookCrudService) over  *)
(* its three storage backends (FileRepository, JsonBinRepository,          *)
(* DbPostgresRepository) and of the enrichment overlay.                    *)
(*                                                                         *)
(* Strings are TLA+ strings; str.lower() is tabulated on the strings the   *)
(* model uses.  An Optional value is a sequence of length 0 or 1.          *)
(* Ratings are held in tenths (42 is 4.2), so that the integer column of   *)
(* the relational table can round them.  A cover value carries its Python  *)
(* type: a plain str, or the Url object pydantic makes of it.              *)
(***************************************************************************)
EXTENDS Integers, Sequences, FiniteSets, TLC

\* ------------------------------------------------------------------ bounds
\* calls started in one behaviour
MaxOps == 3
\* storage-call failures injected by the environment in one behaviour
MaxFaults == 1
\* worker processes handling requests
NumProcs == 2

\* ------------------------------------------------------------ value domains
\* An Optional[T] is a sequence: << >> is None, <<x>> is the value x.
None == << >>
Some(x) == <<x>>

Backends == {"file", "jsonbin", "db"}
Procs == 1..NumProcs

AVAILABLE == "available"
BORROWED == "borrowed"
AvailabilityStatus == {AVAILABLE, BORROWED}

StrValue(s) == [kind |-> "str", v |-> s]
UrlValue(s) == [kind |-> "url", v |-> s]

\* str.lower() on the strings of the model
Lower(s) ==
    CASE s = "Frank Herbert" -> "frank herbert"
      [] s = "FRANK HERBERT" -> "frank herbert"
      [] s = "Frank" -> "frank"
      [] s = "Jane Austen" -> "jane austen"
      [] s = "Sci-Fi" -> "sci-fi"
      [] s = "SCI-FI" -> "sci-fi"
      [] s = "Sci" -> "sci"
      [] s = "Novel" -> "novel"
      [] s = "Herbert" -> "herbert"
      [] OTHER -> s

\* Python truthiness of an Optional[str]: None and "" are falsy
TruthyStr(o) == o /= None /\ o[1] /= ""

\* Python truthiness of an Optional[float]: None and 0 are falsy
TruthyNum(o) == o /= None /\ o[1] /= 0

\* A JSON value of the wrong type is kept in the encoding of the right type
\* under a reserved value: a number where the code expects text, and text
\* where it expects a number.
NotText == "<number>"
NotNumber == 0 - 1

\* ------------------------------------------------------------ record model
\* BookBase: availability defaults to AVAILABLE when the request omits it
BookCreate(raw) ==
    [title |-> raw.title, author |-> raw.author,
     publication_year |-> raw.publication_year, genre |-> raw.genre,
     pages |-> raw.pages,
     availability |->
        IF raw.availability = None THEN AVAILABLE ELSE raw.availability[1]]

\* Book(**d): cover_url is validated into a Url object, the rest is kept
Book(d) ==
    [d EXCEPT !.cover_url =
        IF d.cover_url = None THEN None ELSE Some(UrlValue(d.cover_url[1].v))]

\* Book(**d) raises ValidationError unless description is a str or None and
\* rating is a number or None
Validates(d) ==
    /\ d.description = None \/ d.description[1] /= NotText
    /\ d.rating = None \/ d.rating[1] /= NotNumber

\* BookCreate.model_dump() plus the id; Book's optional fields are not in the
\* dict yet, which every later reader (Book(**d), data.get) reads as None
CreateDict(book, next_id) ==
    [id |-> next_id, title |-> book.title, author |-> book.author,
     publication_year |-> book.publication_year, genre |-> book.genre,
     pages |-> book.pages, availability |-> book.availability,
     cover_url |-> None, description |-> None, rating |-> None]

UpdateFields ==
    {"title", "author", "publication_year", "genre", "pages", "availability"}

\* A BookUpdate field is << >> when the request did not set it, <<None>> when
\* it set an explicit null, <<Some(v)>> when it set the value v.
NotSet == << >>
Null == <<None>>
Val(v) == <<Some(v)>>

\* BookUpdate.model_dump(exclude_unset=True): the keys the request set,
\* an explicit null included
UpdateData(upd) == {f \in UpdateFields : upd[f] /= NotSet}

\* one round of "for field, value in update_data.items(): if value is not None"
UpdatedField(upd, f, old) ==
    IF f \in UpdateData(upd) /\ upd[f][1] /= None THEN upd[f][1][1] ELSE old

\* the merge with one field of the request left out of it
ApplyUpdate_ForgetsAvailability(book_dict, upd) ==
    [book_dict EXCEPT
        !.title = UpdatedField(upd, "title", @),
        !.author = UpdatedField(upd, "author", @),
        !.publication_year = UpdatedField(upd, "publication_year", @),
        !.genre = UpdatedField(upd, "genre", @),
        !.pages = UpdatedField(upd, "pages", @)]

\* book_dict = book.model_dump() with the update's values written over it
ApplyUpdate(book_dict, upd) ==
    [book_dict EXCEPT
        !.title = UpdatedField(upd, "title", @),
        !.author = UpdatedField(upd, "author", @),
        !.publication_year = UpdatedField(upd, "publication_year", @),
        !.genre = UpdatedField(upd, "genre", @),
        !.pages = UpdatedField(upd, "pages", @),
        !.availability = UpdatedField(upd, "availability", @)]

\* "if cover_url: ... if description: ... if rating: ..." of create and update;
\* e is the triple enrich_book_data returned
Overlay(book_dict, e) ==
    [book_dict EXCEPT
        !.cover_url = IF TruthyStr(e[1]) THEN Some(StrValue(e[1][1])) ELSE @,
        !.description = IF TruthyStr(e[2]) THEN e[2] ELSE @,
        !.rating = IF TruthyNum(e[3]) THEN e[3] ELSE @]

\* ----------------------------------------------------------- JSON backends
EmptyData == [books |-> << >>, next_id |-> 1]

\* json.dump / requests.put(json=...) can encode str, int, float, None, not Url
JsonSerializable(data) ==
    \A i \in 1..Len(data.books) :
        data.books[i].cover_url = None \/ data.books[i].cover_url[1].kind = "str"

\* ------------------------------------------------------- relational backend
\* rating = Column(Integer): a fractional rating is rounded by the insert
IntegerColumn(r) == IF r = None THEN None ELSE Some(((r[1] + 5) \div 10) * 10)

\* the row that save_data / update_data write: str(cover_url), integer rating
Row(d) ==
    [d EXCEPT
        !.cover_url =
            IF d.cover_url = None THEN None ELSE Some(StrValue(d.cover_url[1].v)),
        !.rating = IntegerColumn(d.rating)]

SeqIds(books) == {books[i].id : i \in 1..Len(books)}

MaxId(rows) ==
    IF Len(rows) = 0 THEN 0
    ELSE CHOOSE m \in SeqIds(rows) : \A k \in SeqIds(rows) : k <= m

\* first element of a list with the given id, None when there is none
FindById(books, book_id) ==
    IF book_id \in SeqIds(books)
    THEN LET i == CHOOSE i \in 1..Len(books) :
                    /\ books[i].id = book_id
                    /\ \A j \in 1..(i - 1) : books[j].id /= book_id
         IN Some(books[i])
    ELSE None

\* ------------------------------------------------------------------ state
VARIABLES
    backend,     \* STORAGE_TYPE: which repository get_storage() builds
    concurrent,  \* whether requests of several workers may interleave
    fileState,   \* data/books.json: "missing", "ok", "malformed" (it does
                 \* not decode) or "unreadable" (open() is refused)
    doc,         \* the JSON document of the file or the bin: books, next_id
    rows,        \* the rows of the books table, in insertion order
    pc,          \* each worker's position inside the call it is handling
    loc,         \* each worker's local variables
    ops,         \* calls started so far
    faults,      \* storage-call failures injected so far
    last,        \* the call that completed last
    created,     \* the ids that create has returned, in order
    deleted      \* the ids for which delete has returned True

vars ==
    <<backend, concurrent, fileState, doc, rows, pc, loc, ops, faults,
      last, created, deleted>>

\* what is persisted, as one value
Persisted == [fileState |-> fileState, doc |-> doc, rows |-> rows]

IdleLoc ==
    [op |-> "none", id |-> 0, raw |-> None, upd |-> None, next_id |-> 0,
     found |-> None, dict |-> None, data |-> EmptyData, enrich |-> None,
     pre |-> None, asked |-> None, resp |-> None]

NoCall ==
    [op |-> "none", id |-> 0, raw |-> None, upd |-> None, found |-> None,
     enrich |-> None, ret |-> << >>, ok |-> FALSE, raised |-> FALSE,
     persists |-> 0, pre |-> None, query |-> None, asked |-> None,
     resp |-> None]

\* ----------------------------------------------------------------- inputs
Dune ==
    [title |-> "Dune", author |-> "Frank Herbert", publication_year |-> 1965,
     genre |-> "Sci-Fi", pages |-> 412, availability |-> None]

Emma ==
    [title |-> "Emma", author |-> "Jane Austen", publication_year |-> 1815,
     genre |-> "Novel", pages |-> 474, availability |-> Some(BORROWED)]

CreateRequests == {Dune, Emma}

NoUpdate ==
    [title |-> NotSet, author |-> NotSet, publication_year |-> NotSet,
     genre |-> NotSet, pages |-> NotSet, availability |-> NotSet]

UpdateRequests ==
    { NoUpdate,
      [NoUpdate EXCEPT !.availability = Val(BORROWED)],
      [NoUpdate EXCEPT !.title = Val("Emma")],
      [NoUpdate EXCEPT !.title = Null],
      [NoUpdate EXCEPT !.author = Val("FRANK HERBERT"), !.pages = Val(500)] }

BookIds == 1..2

\* the triples enrich_book_data can return: (cover_url, description, rating)
EnrichOutcomes ==
    { <<None, None, None>>,
      <<Some("cover-1"), Some("text-1"), Some(42)>>,
      <<Some("cover-2"), None, None>>,
      <<None, Some(""), Some(0)>> }

\* what Open Library answers to the four requests of one enrichment:
\*   search   /search.json: no usable answer, no document found, a document
\*   key      the document's "key": absent, or the key of a work
\*   cover    the document's cover data: none, "cover_i", "edition_key" as a
\*            list of edition ids, or "edition_key" as a JSON object; also
\*            "cover_i" 0 beside a list of edition ids, and "edition_key" as
\*            a list whose first id is the empty string
\*   details  <key>.json: no usable answer, an object with "key", one without
\*   editions <key>/editions.json: no usable answer, entries without a
\*            description, a typed text, a typed empty text, a description
\*            that is a plain string, a typed value that is a number
\*   ratings  ratings.json: no usable answer, no average, an average, the
\*            average 0, an average that is text
Responses ==
    [search : {"error", "empty", "doc"},
     key : {"absent", "work"},
     cover : {"absent", "cover_i", "edition_list", "edition_object",
              "cover_zero", "edition_blank"},
     details : {"error", "ok", "no_key"},
     editions : {"error", "none", "text", "empty", "plain", "number"},
     ratings : {"error", "none", "num", "zero", "text"}]

\* OpenLibraryApi.get_book_description: book_data['key'] and
\* entry["description"]["type"] raise on the wrong shape; every exception
\* gives None
get_book_description(r) ==
    IF r.details = "no_key" THEN None
    ELSE CASE r.editions = "text" -> Some("text-1")
           [] r.editions = "empty" -> Some("")
           [] r.editions = "number" -> Some(NotText)
           [] OTHER -> None

\* OpenLibraryApi.get_book_rating: result["summary"]["average"] as it is
get_book_rating(r) ==
    CASE r.ratings = "num" -> Some(42)
      [] r.ratings = "zero" -> Some(0)
      [] r.ratings = "text" -> Some(NotNumber)
      [] OTHER -> None

\* the cover taken from cover_i only
get_cover_url_NoEdition(r) ==
    IF r.cover = "cover_i" THEN Some("cover-1") ELSE None

\* the cover of lines 196-202: from a truthy cover_i ("cover-1"), else from
\* the first edition id ("cover-2"), for which get_cover_url returns None
\* when it is empty
get_cover_url(r) ==
    CASE r.cover = "cover_i" -> Some("cover-1")
      [] r.cover \in {"edition_list", "cover_zero"} -> Some("cover-2")
      [] OTHER -> None

\* the requests one enrich_book_data sends: the search; the work's details
\* when the document has a key; then the editions (unless book_data['key']
\* raises first) and the ratings when the details came back; the cover is
\* built without a request
RequestsIssued(r) ==
    {"search"}
    \cup (IF r.search = "doc" /\ r.key = "work" THEN {"details"} ELSE {})
    \cup (IF r.search = "doc" /\ r.key = "work" /\ r.details = "ok"
          THEN {"editions"} ELSE {})
    \cup (IF r.search = "doc" /\ r.key = "work" /\ r.details /= "error"
          THEN {"ratings"} ELSE {})

\* the enrichment going on with the answer of a search that found nothing
enrich_book_data_IgnoresSearch(r) ==
    LET resolved == r.key = "work" /\ r.details /= "error" IN
    << get_cover_url(r),
       IF resolved THEN get_book_description(r) ELSE None,
       IF resolved THEN get_book_rating(r) ELSE None >>

\* OpenLibraryApi.enrich_book_data: the triple (cover_url, description,
\* rating); book_search_result["edition_key"][0] raises on an object, and
\* the except clause around the whole body then returns three times None
enrich_book_data(r) ==
    IF r.search /= "doc" THEN <<None, None, None>>
    ELSE IF r.cover = "edition_object" THEN <<None, None, None>>
    ELSE LET resolved == r.key = "work" /\ r.details /= "error" IN
         << get_cover_url(r),
            IF resolved THEN get_book_description(r) ELSE None,
            IF resolved THEN get_book_rating(r) ELSE None >>

\* the outcomes a storage call can have: it works, or (while the fault budget
\* lasts) it fails the way the backend's except clauses expect
Oks == IF faults < MaxFaults /\ backend /= "file" THEN {TRUE, FALSE} ELSE {TRUE}

SaveOutcomes ==
    IF faults >= MaxFaults THEN {"ok"}
    ELSE IF backend = "file" THEN {"ok", "open_error", "write_error"}
    ELSE {"ok", "put_error"}

Fault(ok) == faults' = IF ok THEN faults ELSE faults + 1

\* ---------------------------------------------------------- storage calls
\* FileRepository.load_data: the file's document, or the empty collection
\* when the file is missing or does not decode
FileLoad == IF fileState = "ok" THEN doc ELSE EmptyData

\* JsonBinRepository.load_data: the bin's record, or the empty collection on
\* a non-200 answer or an exception
JsonBinLoad(ok) == IF ok THEN doc ELSE EmptyData

load_data(ok) == IF backend = "file" THEN FileLoad ELSE JsonBinLoad(ok)

\* FileRepository.load_data catches json.JSONDecodeError only: the OSError of
\* an open() that is refused leaves it
LoadRaises == backend = "file" /\ fileState = "unreadable"

\* FileRepository.save_data: open(..., "w") truncates and json.dump writes
\* piece by piece, so an exception in the middle leaves a file that does not
\* decode; nothing is caught
FileSave(data, outcome) ==
    IF outcome = "open_error"
    THEN [fileState |-> fileState, doc |-> doc, raised |-> TRUE]
    ELSE IF outcome = "write_error" \/ ~JsonSerializable(data)
    THEN [fileState |-> "malformed", doc |-> EmptyData, raised |-> TRUE]
    ELSE [fileState |-> "ok", doc |-> data, raised |-> FALSE]

\* JsonBinRepository.save_data: a failed PUT, or a body that cannot be
\* encoded, is logged and swallowed
JsonBinSave(data, outcome) ==
    IF outcome = "ok" /\ JsonSerializable(data)
    THEN [fileState |-> fileState, doc |-> data, raised |-> FALSE]
    ELSE [fileState |-> fileState, doc |-> doc, raised |-> FALSE]

\* a save that adds the records with new ids to the stored ones and keeps
\* every stored record as it is
save_data_Merges(data, outcome) ==
    LET r == IF backend = "file" THEN FileSave(data, outcome)
             ELSE JsonBinSave(data, outcome)
    IN [r EXCEPT !.doc.books =
            doc.books \o SelectSeq(@, LAMBDA b : b.id \notin SeqIds(doc.books))]

save_data(data, outcome) ==
    IF backend = "file" THEN FileSave(data, outcome) ELSE JsonBinSave(data, outcome)

\* DbPostgresRepository.load_data
DbLoad(ok) == IF ok THEN rows ELSE << >>

\* DbPostgresRepository.get_data_by_id
get_data_by_id(book_id, ok) == IF ok THEN FindById(rows, book_id) ELSE None

\* the next id taken from the number of rows
get_next_id_CountsRows(ok) == IF ok THEN Len(rows) + 1 ELSE 1

\* DbPostgresRepository.get_next_id
get_next_id(ok) == IF ok /\ Len(rows) > 0 THEN MaxId(rows) + 1 ELSE 1

\* DbPostgresRepository.save_data: the insert; an exception (the primary key
\* exists already, the connection fails) is rolled back and swallowed
DbInsert(d, ok) ==
    IF ok /\ d.id \notin SeqIds(rows) THEN Append(rows, Row(d)) ELSE rows

\* an update that inserts the row when no row has the id
DbUpdate_Upserts(d, ok) ==
    IF ok /\ d.id \notin SeqIds(rows) THEN Append(rows, Row(d)) ELSE rows

\* DbPostgresRepository.update_data
DbUpdate(d, ok) ==
    IF ok
    THEN [i \in 1..Len(rows) |-> IF rows[i].id = d.id THEN Row(d) ELSE rows[i]]
    ELSE rows

\* DbPostgresRepository.delete_data
DbDelete(d, ok) ==
    IF ok THEN SelectSeq(rows, LAMBDA r : r.id /= d.id) ELSE rows

\* ---------------------------------------------------------- service reads
\* BookCrudService._get_next_id
GetNextId(ok) ==
    IF backend = "db" THEN get_next_id(ok) ELSE load_data(ok).next_id

\* the lookup without its test of the id: the first record there is
get_by_id_IgnoresId(book_id, ok) ==
    LET books == IF backend = "db" THEN DbLoad(ok) ELSE load_data(ok).books
    IN IF books = << >> THEN None ELSE Some(Book(books[1]))

\* BookCrudService.get_by_id
get_by_id(book_id, ok) ==
    LET hit == IF backend = "db" THEN get_data_by_id(book_id, ok)
               ELSE FindById(load_data(ok).books, book_id)
    IN IF hit = None THEN None ELSE Some(Book(hit[1]))

\* the three "continue" tests of get_all's loop over the rows (lines 64-69)
MatchesRow(b, author, genre, availability) ==
    /\ ~(TruthyStr(author) /\ Lower(b.author) /= Lower(author[1]))
    /\ ~(TruthyStr(genre) /\ Lower(b.genre) /= Lower(genre[1]))
    /\ ~(TruthyStr(availability) /\ b.availability /= availability[1])

\* the tests over the dicts with lower() missing on the stored strings
MatchesDict_NoLower(b, author, genre, availability) ==
    /\ ~(TruthyStr(author) /\ b.author /= Lower(author[1]))
    /\ ~(TruthyStr(genre) /\ b.genre /= Lower(genre[1]))
    /\ ~(TruthyStr(availability) /\ b.availability /= availability[1])

\* the three "continue" tests of get_all's loop over the dicts (lines 91-96)
MatchesDict(b, author, genre, availability) ==
    /\ ~(TruthyStr(author) /\ Lower(b.author) /= Lower(author[1]))
    /\ ~(TruthyStr(genre) /\ Lower(b.genre) /= Lower(genre[1]))
    /\ ~(TruthyStr(availability) /\ b.availability /= availability[1])

Min(a, b) == IF a < b THEN a ELSE b
Max(a, b) == IF a > b THEN a ELSE b

\* a bound of a Python slice, clamped to the list
SliceBound(i, n) == IF i < 0 THEN Max(i + n, 0) ELSE Min(i, n)

\* s[lo:hi]
Slice(s, lo, hi) ==
    LET a == SliceBound(lo, Len(s))
        b == SliceBound(hi, Len(s))
    IN IF a >= b THEN << >> ELSE SubSeq(s, a + 1, b)

MapBook(s) == [i \in 1..Len(s) |-> Book(s[i])]

\* get_all, lines 60-84 and 101: the relational branch
GetAllDb(books_data, q) ==
    Slice(MapBook(SelectSeq(books_data,
              LAMBDA b : MatchesRow(b, q.author, q.genre, q.availability))),
          q.offset, q.offset + q.limit)

\* the branch of the JSON backends with the slice taken before the filters
GetAllJson_SliceFirst(books, q) ==
    MapBook(SelectSeq(Slice(books, q.offset, q.offset + q.limit),
              LAMBDA b : MatchesDict(b, q.author, q.genre, q.availability)))

\* get_all, lines 87-101: the branch of the JSON backends
GetAllJson(books, q) ==
    Slice(MapBook(SelectSeq(books,
              LAMBDA b : MatchesDict(b, q.author, q.genre, q.availability))),
          q.offset, q.offset + q.limit)

\* BookCrudService.get_all
get_all(q, ok) ==
    IF backend = "db" THEN GetAllDb(DbLoad(ok), q)
    ELSE GetAllJson(load_data(ok).books, q)

\* ---------------------------------------------------------------- actions
Init ==
    /\ backend \in Backends
    /\ concurrent = FALSE
    /\ fileState = "missing"
    /\ doc = EmptyData
    /\ rows = << >>
    /\ pc = [p \in Procs |-> "idle"]
    /\ loc = [p \in Procs |-> IdleLoc]
    /\ ops = 0
    /\ faults = 0
    /\ last = NoCall
    /\ created = << >>
    /\ deleted = {}

\* a worker takes the next request; without concurrency one worker serves all
CanStart(p) ==
    /\ pc[p] = "idle"
    /\ ops < MaxOps
    /\ concurrent \/ (p = 1 /\ \A q \in Procs : pc[q] = "idle")

\* the call of worker p returns (or raises): it becomes the last call
Finish(p, call) ==
    /\ last' = call
    /\ pc' = [pc EXCEPT ![p] = "idle"]
    /\ loc' = [loc EXCEPT ![p] = IdleLoc]
    /\ created' = IF call.op = "create" /\ ~call.raised
                  THEN Append(created, call.ret[1].id) ELSE created
    /\ deleted' = IF call.op = "delete" /\ call.ok
                  THEN deleted \cup {call.id} ELSE deleted

Goto(p, label, l) ==
    /\ pc' = [pc EXCEPT ![p] = label]
    /\ loc' = [loc EXCEPT ![p] = l]
    /\ UNCHANGED <<last, created, deleted>>

\* the record of worker p's call when it ends
Call(l, ret, ok, raised, persists) ==
    [op |-> l.op, id |-> l.id, raw |-> l.raw, upd |-> l.upd,
     found |-> l.found, enrich |-> l.enrich, ret |-> ret, ok |-> ok,
     raised |-> raised, persists |-> persists, pre |-> l.pre, query |-> None,
     asked |-> l.asked, resp |-> l.resp]

\* the full-collection save that ends create, update and delete on the JSON
\* backends; an exception of save_data leaves the call without a result
SaveAndReturn(p, ret, ok) ==
    \E outcome \in SaveOutcomes :
        LET r == save_data(loc[p].data, outcome) IN
        /\ fileState' = r.fileState
        /\ doc' = r.doc
        /\ Fault(outcome = "ok")
        /\ Finish(p, Call(loc[p], IF r.raised THEN << >> ELSE ret,
                          ok /\ ~r.raised, r.raised, 1))
        /\ UNCHANGED <<backend, concurrent, rows, ops>>

\* create, lines 146-149: the next id and the dict of the new book
CreateBegin(p, raw) ==
    /\ CanStart(p)
    /\ \E ok \in Oks :
        LET nid == GetNextId(ok) IN
        /\ Fault(ok)
        /\ Goto(p, "create_enrich",
                [IdleLoc EXCEPT !.op = "create", !.raw = Some(raw),
                    !.next_id = nid, !.pre = Some(Persisted),
                    !.dict = Some(CreateDict(BookCreate(raw), nid))])
    /\ ops' = ops + 1
    /\ UNCHANGED <<backend, concurrent, fileState, doc, rows>>

\* create, lines 151-162: enrich_book_data(book_dict["title"]) has returned
\* e (r is what Open Library answered, when that is modelled); the overlay,
\* then Book(**book_dict), whose ValidationError ends the call
CreateOverlay(p, e, r) ==
    LET d == Overlay(loc[p].dict[1], e)
        l == [loc[p] EXCEPT !.enrich = Some(e), !.resp = r, !.dict = Some(d),
                            !.asked = Some(loc[p].dict[1].title)]
    IN IF Validates(d)
       THEN Goto(p, IF backend = "db" THEN "create_insert" ELSE "create_load", l)
       ELSE Finish(p, Call(l, << >>, FALSE, TRUE, 0))

\* create, lines 151-164: the enrichment call and its overlay
CreateEnrich(p) ==
    /\ pc[p] = "create_enrich"
    /\ \E e \in EnrichOutcomes : CreateOverlay(p, e, None)
    /\ UNCHANGED <<backend, concurrent, fileState, doc, rows, ops, faults>>

\* the same step with the result computed from Open Library's answers
CreateLookup(p) ==
    /\ pc[p] = "create_enrich"
    /\ \E r \in Responses : CreateOverlay(p, enrich_book_data(r), Some(r))
    /\ UNCHANGED <<backend, concurrent, fileState, doc, rows, ops, faults>>

\* create, lines 171-175: load again, append, set next_id
CreateLoad(p) ==
    /\ pc[p] = "create_load"
    /\ \E ok \in Oks :
        LET data == load_data(ok) IN
        /\ Fault(ok)
        /\ Goto(p, "create_save",
                [loc[p] EXCEPT !.data =
                    [books |-> Append(data.books, loc[p].dict[1]),
                     next_id |-> loc[p].next_id + 1]])
    /\ UNCHANGED <<backend, concurrent, fileState, doc, rows, ops>>

\* create, lines 176-178
CreateSave(p) ==
    /\ pc[p] = "create_save"
    /\ SaveAndReturn(p, <<Book(loc[p].dict[1])>>, TRUE)

\* create, line 168 and 178: the relational insert
CreateInsert(p) ==
    /\ pc[p] = "create_insert"
    /\ \E ok \in Oks :
        /\ rows' = DbInsert(loc[p].dict[1], ok)
        /\ Fault(ok)
        /\ Finish(p, Call(loc[p], <<Book(loc[p].dict[1])>>, TRUE, FALSE, 1))
    /\ UNCHANGED <<backend, concurrent, fileState, doc, ops>>

\* update, lines 189-200: the lookup and the merge of the request's fields
UpdateBegin(p, book_id, upd) ==
    /\ CanStart(p)
    /\ \E ok \in Oks :
        LET book == get_by_id(book_id, ok)
            l == [IdleLoc EXCEPT !.op = "update", !.id = book_id,
                     !.upd = Some(upd), !.found = book, !.pre = Some(Persisted)]
        IN
        /\ Fault(ok)
        /\ IF book = None
           THEN Finish(p, Call(l, << >>, FALSE, FALSE, 0))
           ELSE Goto(p, IF "title" \in UpdateData(upd) THEN "update_enrich"
                        ELSE IF backend = "db" THEN "update_row"
                        ELSE "update_load",
                     [l EXCEPT !.dict = Some(ApplyUpdate(book[1], upd))])
    /\ ops' = ops + 1
    /\ UNCHANGED <<backend, concurrent, fileState, doc, rows>>

\* update, lines 203-216: enrich_book_data(book_dict["title"]) has returned
\* e; the overlay, then Book(**book_dict)
UpdateOverlay(p, e, r) ==
    LET d == Overlay(loc[p].dict[1], e)
        l == [loc[p] EXCEPT !.enrich = Some(e), !.resp = r, !.dict = Some(d),
                            !.asked = Some(loc[p].dict[1].title)]
    IN IF Validates(d)
       THEN Goto(p, IF backend = "db" THEN "update_row" ELSE "update_load", l)
       ELSE Finish(p, Call(l, << >>, FALSE, TRUE, 0))

\* update, lines 203-214: enrichment when the request carries the title key
UpdateEnrich(p) ==
    /\ pc[p] = "update_enrich"
    /\ \E e \in EnrichOutcomes : UpdateOverlay(p, e, None)
    /\ UNCHANGED <<backend, concurrent, fileState, doc, rows, ops, faults>>

\* the same step with the result computed from Open Library's answers
UpdateLookup(p) ==
    /\ pc[p] = "update_enrich"
    /\ \E r \in Responses : UpdateOverlay(p, enrich_book_data(r), Some(r))
    /\ UNCHANGED <<backend, concurrent, fileState, doc, rows, ops, faults>>

\* the book taken out of the list and put at its end
ReplaceFirst_MovesToEnd(books, d) ==
    IF d.id \in SeqIds(books)
    THEN Append(SelectSeq(books, LAMBDA b : b.id /= d.id), d)
    ELSE books

\* books[i] = book_dict for the first i with the id, then break
ReplaceFirst(books, d) ==
    [i \in 1..Len(books) |->
        IF books[i].id = d.id /\ \A j \in 1..(i - 1) : books[j].id /= d.id
        THEN d ELSE books[i]]

\* update, lines 223-231: load again and replace the book in the list
UpdateLoad(p) ==
    /\ pc[p] = "update_load"
    /\ \E ok \in Oks :
        LET data == load_data(ok) IN
        /\ Fault(ok)
        /\ Goto(p, "update_save",
                [loc[p] EXCEPT !.data =
                    [data EXCEPT !.books = ReplaceFirst(data.books, loc[p].dict[1])]])
    /\ UNCHANGED <<backend, concurrent, fileState, doc, rows, ops>>

\* update, lines 232-235
UpdateSave(p) ==
    /\ pc[p] = "update_save"
    /\ SaveAndReturn(p, <<Book(loc[p].dict[1])>>, TRUE)

\* update, lines 220 and 235: the relational row update
UpdateRow(p) ==
    /\ pc[p] = "update_row"
    /\ \E ok \in Oks :
        /\ rows' = DbUpdate(loc[p].dict[1], ok)
        /\ Fault(ok)
        /\ Finish(p, Call(loc[p], <<Book(loc[p].dict[1])>>, TRUE, FALSE, 1))
    /\ UNCHANGED <<backend, concurrent, fileState, doc, ops>>

\* delete, lines 245-247: the lookup
DeleteBegin(p, book_id) ==
    /\ CanStart(p)
    /\ \E ok \in Oks :
        LET book == get_by_id(book_id, ok)
            l == [IdleLoc EXCEPT !.op = "delete", !.id = book_id,
                     !.found = book, !.pre = Some(Persisted)]
        IN
        /\ Fault(ok)
        /\ IF book = None
           THEN Finish(p, Call(l, << >>, FALSE, FALSE, 0))
           ELSE Goto(p, IF backend = "db" THEN "delete_row" ELSE "delete_load", l)
    /\ ops' = ops + 1
    /\ UNCHANGED <<backend, concurrent, fileState, doc, rows>>

\* delete, lines 254-257: load again and filter the book out
DeleteLoad(p) ==
    /\ pc[p] = "delete_load"
    /\ \E ok \in Oks :
        LET data == load_data(ok) IN
        /\ Fault(ok)
        /\ Goto(p, "delete_save",
                [loc[p] EXCEPT !.data =
                    [data EXCEPT !.books =
                        SelectSeq(data.books, LAMBDA b : b.id /= loc[p].id)]])
    /\ UNCHANGED <<backend, concurrent, fileState, doc, rows, ops>>

\* delete, lines 258-260
DeleteSave(p) ==
    /\ pc[p] = "delete_save"
    /\ SaveAndReturn(p, << >>, TRUE)

\* delete, lines 251 and 260: the relational row delete
DeleteRow(p) ==
    /\ pc[p] = "delete_row"
    /\ \E ok \in Oks :
        /\ rows' = DbDelete(loc[p].found[1], ok)
        /\ Fault(ok)
        /\ Finish(p, Call(loc[p], << >>, TRUE, FALSE, 1))
    /\ UNCHANGED <<backend, concurrent, fileState, doc, ops>>

\* get_by_id as a call of its own
GetById(p, book_id) ==
    /\ CanStart(p)
    /\ \E ok \in Oks :
        LET book == get_by_id(book_id, ok)
            l == [IdleLoc EXCEPT !.op = "get_by_id", !.id = book_id,
                     !.found = book, !.pre = Some(Persisted)]
        IN
        /\ Fault(ok)
        /\ IF LoadRaises
           THEN Finish(p, Call([l EXCEPT !.found = None], << >>, FALSE, TRUE, 0))
           ELSE Finish(p, Call(l, book, book /= None, FALSE, 0))
    /\ ops' = ops + 1
    /\ UNCHANGED <<backend, concurrent, fileState, doc, rows>>

NoFilter ==
    [offset |-> 0, limit |-> 10, author |-> None, genre |-> None,
     availability |-> None]

\* the queries the catalog is asked in a run of calls
Queries == {NoFilter, [NoFilter EXCEPT !.author = Some("frank herbert")]}

\* a get_all that writes back the collection it has loaded
GetAll_SavesLoaded(p, q) ==
    /\ CanStart(p)
    /\ \E ok \in Oks :
        LET l == [IdleLoc EXCEPT !.op = "get_all", !.pre = Some(Persisted)] IN
        /\ Fault(ok)
        /\ doc' = IF backend = "db" THEN doc ELSE load_data(ok)
        /\ Finish(p, [Call(l, get_all(q, ok), TRUE, FALSE, 0)
                          EXCEPT !.query = Some(q)])
    /\ ops' = ops + 1
    /\ UNCHANGED <<backend, concurrent, fileState, rows>>

\* get_all as a call of its own
GetAll(p, q) ==
    /\ CanStart(p)
    /\ \E ok \in Oks :
        LET l == [IdleLoc EXCEPT !.op = "get_all", !.pre = Some(Persisted)] IN
        /\ Fault(ok)
        /\ IF LoadRaises
           THEN Finish(p, [Call(l, << >>, FALSE, TRUE, 0) EXCEPT !.query = Some(q)])
           ELSE Finish(p, [Call(l, get_all(q, ok), TRUE, FALSE, 0)
                              EXCEPT !.query = Some(q)])
    /\ ops' = ops + 1
    /\ UNCHANGED <<backend, concurrent, fileState, doc, rows>>

Next ==
    \E p \in Procs :
        \/ \E raw \in CreateRequests : CreateBegin(p, raw)
        \/ CreateEnrich(p)
        \/ CreateLoad(p)
        \/ CreateSave(p)
        \/ CreateInsert(p)
        \/ \E book_id \in BookIds, upd \in UpdateRequests : UpdateBegin(p, book_id, upd)
        \/ UpdateEnrich(p)
        \/ UpdateLoad(p)
        \/ UpdateSave(p)
        \/ UpdateRow(p)
        \/ \E book_id \in BookIds : DeleteBegin(p, book_id)
        \/ DeleteLoad(p)
        \/ DeleteSave(p)
        \/ DeleteRow(p)
        \/ \E book_id \in BookIds : GetById(p, book_id)
        \/ \E q \in Queries : GetAll(p, q)

\* requests handled one after another
Spec == Init /\ [][Next]_vars

InitConc ==
    /\ backend \in Backends
    /\ concurrent = TRUE
    /\ fileState = "missing"
    /\ doc = EmptyData
    /\ rows = << >>
    /\ pc = [p \in Procs |-> "idle"]
    /\ loc = [p \in Procs |-> IdleLoc]
    /\ ops = 0
    /\ faults = 0
    /\ last = NoCall
    /\ created = << >>
    /\ deleted = {}

\* requests of several workers interleaving at their storage and network calls
SpecConc == InitConc /\ [][Next]_vars

\* ------------------------------------------------- get_all as a function
\* records as a backend holds them
Stored(id, title, author, genre, availability, cover, rating) ==
    [id |-> id, title |-> title, author |-> author, publication_year |-> 1965,
     genre |-> genre, pages |-> 412, availability |-> availability,
     cover_url |-> cover, description |-> None, rating |-> rating]

SampleBooks ==
    << Stored(1, "Dune", "Frank Herbert", "Sci-Fi", AVAILABLE,
              Some(StrValue("cover-1")), Some(40)),
       Stored(2, "Emma", "Jane Austen", "Novel", BORROWED, None, None),
       Stored(3, "Dune", "FRANK HERBERT", "SCI-FI", BORROWED, None, None),
       Stored(4, "Dune", "Frank", "Sci", AVAILABLE, None, None) >>

\* the sample books with the ids in a set, in the order of their creation
Collection(ids) == SelectSeq(SampleBooks, LAMBDA b : b.id \in ids)

FilterQueries ==
    [offset : {0, 1, 2}, limit : {0, 1, 2, 10},
     author : {None, Some(""), Some("frank herbert"), Some("Frank"),
               Some("Herbert")},
     genre : {None, Some(""), Some("sci-fi"), Some("Sci")},
     availability : {None, Some(AVAILABLE), Some(BORROWED)}]

\* a backend that holds some of the sample books and whose loads work
InitQuery ==
    /\ backend \in Backends
    /\ concurrent = FALSE
    /\ \E ids \in SUBSET (1..Len(SampleBooks)) :
          /\ rows = IF backend = "db" THEN Collection(ids) ELSE << >>
          /\ doc = IF backend = "db" THEN EmptyData
                   ELSE [books |-> Collection(ids),
                         next_id |-> Len(SampleBooks) + 1]
    /\ fileState = IF backend = "file" THEN "ok" ELSE "missing"
    /\ pc = [p \in Procs |-> "idle"]
    /\ loc = [p \in Procs |-> IdleLoc]
    /\ ops = 0
    /\ faults = MaxFaults
    /\ last = NoCall
    /\ created = << >>
    /\ deleted = {}

\* one query of the collection that Init drew
NextQuery == \E q \in FilterQueries : last = NoCall /\ GetAll(1, q)

\* get_all applied to a stored collection
SpecQuery == InitQuery /\ [][NextQuery]_vars

\* ------------------------------------------------- one read of a backend
\* a backend in any condition a load can find it in: the file missing, in
\* order, not decoding or not readable; the bin and the table in order, with
\* one failure of the request to come or none
InitLoad ==
    /\ backend \in Backends
    /\ concurrent = FALSE
    /\ \E ids \in SUBSET (1..3) :
          /\ rows = IF backend = "db" THEN Collection(ids) ELSE << >>
          /\ \/ /\ backend = "db"
                /\ doc = EmptyData
                /\ fileState = "missing"
             \/ /\ backend = "jsonbin"
                /\ doc = [books |-> Collection(ids), next_id |-> Len(SampleBooks) + 1]
                /\ fileState = "missing"
             \/ /\ backend = "file"
                /\ doc = [books |-> Collection(ids), next_id |-> Len(SampleBooks) + 1]
                /\ fileState \in {"ok", "unreadable"}
             \/ /\ backend = "file"
                /\ ids = {}
                /\ doc = EmptyData
                /\ fileState \in {"missing", "malformed"}
    /\ pc = [p \in Procs |-> "idle"]
    /\ loc = [p \in Procs |-> IdleLoc]
    /\ ops = MaxOps - 1
    /\ faults = MaxFaults - 1
    /\ last = NoCall
    /\ created = << >>
    /\ deleted = {}

NextLoad ==
    \/ \E book_id \in BookIds : GetById(1, book_id)
    \/ \E q \in Queries : GetAll(1, q)

\* one get_by_id or one get_all, for every condition of the backend
SpecLoad == InitLoad /\ [][NextLoad]_vars

\* ------------------------------------- one write with its enrichment
\* the updates that carry the title key
TitleUpdates == {u \in UpdateRequests : "title" \in UpdateData(u)}

\* a backend that holds some of the first two sample books and whose storage
\* calls work, with the budget of calls at one
InitEnrich ==
    /\ backend \in Backends
    /\ concurrent = FALSE
    /\ \E ids \in SUBSET (1..2) :
          /\ rows = IF backend = "db" THEN Collection(ids) ELSE << >>
          /\ doc = IF backend = "db" THEN EmptyData
                   ELSE [books |-> Collection(ids),
                         next_id |-> Len(SampleBooks) + 1]
    /\ fileState = IF backend = "file" THEN "ok" ELSE "missing"
    /\ pc = [p \in Procs |-> "idle"]
    /\ loc = [p \in Procs |-> IdleLoc]
    /\ ops = MaxOps - 1
    /\ faults = MaxFaults
    /\ last = NoCall
    /\ created = << >>
    /\ deleted = {}

NextEnrich ==
    \/ \E raw \in CreateRequests : CreateBegin(1, raw)
    \/ CreateLookup(1)
    \/ CreateLoad(1)
    \/ CreateSave(1)
    \/ CreateInsert(1)
    \/ \E book_id \in BookIds, upd \in TitleUpdates : UpdateBegin(1, book_id, upd)
    \/ UpdateLookup(1)
    \/ UpdateLoad(1)
    \/ UpdateSave(1)
    \/ UpdateRow(1)

\* one create or one title-carrying update, for every answer of Open Library
SpecEnrich == InitEnrich /\ [][NextEnrich]_vars

\* ------------------------------------------- two writers on a JSON backend
Borrow == [NoUpdate EXCEPT !.availability = Val(BORROWED)]

\* a JSON backend that holds some of the first two sample books and whose
\* storage calls work, with two workers' calls to come
InitRace ==
    /\ backend \in {"file", "jsonbin"}
    /\ concurrent = TRUE
    /\ \E ids \in SUBSET (1..2) :
          doc = [books |-> Collection(ids), next_id |-> Len(SampleBooks) + 1]
    /\ rows = << >>
    /\ fileState = IF backend = "file" THEN "ok" ELSE "missing"
    /\ pc = [p \in Procs |-> "idle"]
    /\ loc = [p \in Procs |-> IdleLoc]
    /\ ops = MaxOps - 2
    /\ faults = MaxFaults
    /\ last = NoCall
    /\ created = << >>
    /\ deleted = {}

NextRace ==
    \E p \in Procs :
        \/ CreateBegin(p, Dune)
        \/ CreateEnrich(p)
        \/ CreateLoad(p)
        \/ CreateSave(p)
        \/ \E book_id \in BookIds : UpdateBegin(p, book_id, Borrow)
        \/ UpdateLoad(p)
        \/ UpdateSave(p)
        \/ \E book_id \in BookIds : DeleteBegin(p, book_id)
        \/ DeleteLoad(p)
        \/ DeleteSave(p)

\* two mutating calls that may interleave at their loads and saves
SpecRace == InitRace /\ [][NextRace]_vars

\* ------------------------------------------------- the example scenario
\* the calls of the scenario, in order
Scenario == <<"create", "update", "get_all", "delete", "get_by_id">>

ByAuthor == [NoFilter EXCEPT !.author = Some("frank herbert")]

\* an empty backend, with a budget of five calls
InitScenario ==
    /\ backend \in Backends
    /\ concurrent = FALSE
    /\ fileState = "missing"
    /\ doc = EmptyData
    /\ rows = << >>
    /\ pc = [p \in Procs |-> "idle"]
    /\ loc = [p \in Procs |-> IdleLoc]
    /\ ops = MaxOps - Len(Scenario)
    /\ faults = 0
    /\ last = NoCall
    /\ created = << >>
    /\ deleted = {}

\* create(Dune); update(1, availability=borrowed);
\* get_all(author="frank herbert"); delete(1); get_by_id(1)
NextScenario ==
    \/ last.op = "none" /\ CreateBegin(1, Dune)
    \/ CreateEnrich(1)
    \/ CreateLoad(1)
    \/ CreateSave(1)
    \/ CreateInsert(1)
    \/ last.op = "create" /\ UpdateBegin(1, 1, Borrow)
    \/ UpdateLoad(1)
    \/ UpdateSave(1)
    \/ UpdateRow(1)
    \/ last.op = "update" /\ GetAll(1, ByAuthor)
    \/ last.op = "get_all" /\ DeleteBegin(1, 1)
    \/ DeleteLoad(1)
    \/ DeleteSave(1)
    \/ DeleteRow(1)
    \/ last.op = "delete" /\ GetById(1, 1)

SpecScenario == InitScenario /\ [][NextScenario]_vars

\* ------------------------------------------- one call on the books table
\* the table holding some of the sample books, with one call to come and one
\* failure of a query to come or none
InitTable ==
    /\ backend = "db"
    /\ concurrent = FALSE
    /\ \E ids \in SUBSET (1..Len(SampleBooks)) : rows = Collection(ids)
    /\ doc = EmptyData
    /\ fileState = "missing"
    /\ pc = [p \in Procs |-> "idle"]
    /\ loc = [p \in Procs |-> IdleLoc]
    /\ ops = MaxOps - 1
    /\ faults = MaxFaults - 1
    /\ last = NoCall
    /\ created = << >>
    /\ deleted = {}

NextTable ==
    \/ \E raw \in CreateRequests : CreateBegin(1, raw)
    \/ CreateEnrich(1)
    \/ CreateInsert(1)
    \/ \E book_id \in 1..Len(SampleBooks) : GetById(1, book_id)

\* one create or one get_by_id on the relational backend
SpecTable == InitTable /\ [][NextTable]_vars

\* ------------------------------------- an update and a delete interleaving
\* any backend holding some of the first two sample books, whose storage
\* calls work, with two workers' calls to come
InitUpdateDelete ==
    /\ backend \in Backends
    /\ concurrent = TRUE
    /\ \E ids \in SUBSET (1..2) :
          /\ rows = IF backend = "db" THEN Collection(ids) ELSE << >>
          /\ doc = IF backend = "db" THEN EmptyData
                   ELSE [books |-> Collection(ids),
                         next_id |-> Len(SampleBooks) + 1]
    /\ fileState = IF backend = "file" THEN "ok" ELSE "missing"
    /\ pc = [p \in Procs |-> "idle"]
    /\ loc = [p \in Procs |-> IdleLoc]
    /\ ops = MaxOps - 2
    /\ faults = MaxFaults
    /\ last = NoCall
    /\ created = << >>
    /\ deleted = {}

NextUpdateDelete ==
    \E p \in Procs :
        \/ \E book_id \in BookIds : UpdateBegin(p, book_id, Borrow)
        \/ UpdateLoad(p)
        \/ UpdateSave(p)
        \/ UpdateRow(p)
        \/ \E book_id \in BookIds : DeleteBegin(p, book_id)
        \/ DeleteLoad(p)
        \/ DeleteSave(p)
        \/ DeleteRow(p)

\* updates and deletes that may interleave at their storage calls
SpecUpdateDelete == InitUpdateDelete /\ [][NextUpdateDelete]_vars

\* ------------------------------------------- get_all with any integers
\* BookQueryParams declares offset and limit as int without a constraint, so
\* zero and negative values reach the slice
SliceQueries ==
    [offset : {0 - 2, 0 - 1, 0, 1, 2}, limit : {0 - 2, 0 - 1, 0, 1, 2},
     author : {None, Some("frank herbert")}, genre : {None},
     availability : {None}]

\* one query with such parameters of the collection that Init drew
NextSlice == \E q \in SliceQueries : last = NoCall /\ GetAll(1, q)

SpecSlice == InitQuery /\ [][NextSlice]_vars

\* --------------------------------- sequential calls on a JSON backend
\* an empty JSON backend
InitOrder ==
    /\ backend \in {"file", "jsonbin"}
    /\ concurrent = FALSE
    /\ fileState = "missing"
    /\ doc = EmptyData
    /\ rows = << >>
    /\ pc = [p \in Procs |-> "idle"]
    /\ loc = [p \in Procs |-> IdleLoc]
    /\ ops = 0
    /\ faults = 0
    /\ last = NoCall
    /\ created = << >>
    /\ deleted = {}

NextOrder ==
    \/ \E raw \in CreateRequests : CreateBegin(1, raw)
    \/ CreateEnrich(1)
    \/ CreateLoad(1)
    \/ CreateSave(1)
    \/ \E book_id \in BookIds : UpdateBegin(1, book_id, Borrow)
    \/ UpdateLoad(1)
    \/ UpdateSave(1)
    \/ \E book_id \in BookIds : DeleteBegin(1, book_id)
    \/ DeleteLoad(1)
    \/ DeleteSave(1)
    \/ GetAll(1, NoFilter)

\* creates, updates, deletes and unfiltered get_all calls, one after another
SpecOrder == InitOrder /\ [][NextOrder]_vars

\* ----------------------------------------------------------------- claims
\* no call is in progress
Quiet == \A p \in Procs : pc[p] = "idle"

\* the records a load of the backend returns when it works
StoredBooks == IF backend = "db" THEN rows ELSE load_data(TRUE).books

IdsUnique(books) ==
    \A i, j \in 1..Len(books) : i /= j => books[i].id /= books[j].id

SameCallerFields(a, b) ==
    /\ a.title = b.title
    /\ a.author = b.author
    /\ a.publication_year = b.publication_year
    /\ a.genre = b.genre
    /\ a.pages = b.pages
    /\ a.availability = b.availability

\* C1: as long as nothing has been deleted, the ids that successive create
\* calls return are strictly increasing (so pairwise different), whatever the
\* outcomes of the storage calls were.
C1_CreateIdsStrictlyIncreasing ==
    deleted = {} =>
        \A i, j \in 1..Len(created) : i < j => created[i] < created[j]

\* C2: even when no storage call fails, a create never returns an id for which
\* an earlier delete returned True.
C2_DeletedIdNeverReassigned ==
    (faults = 0 /\ last.op = "create" /\ ~last.raised) =>
        last.ret[1].id \notin deleted

\* C3: on the File and Hosted-Document backends no two records of the
\* persisted collection share an id, in every interleaving of concurrent
\* calls, even when no storage call fails.
C3_PersistedIdsUnique ==
    (backend /= "db" /\ faults = 0) => IdsUnique(doc.books)

\* C4: when create has returned record r, a get_by_id(r.id) that follows
\* immediately returns a record with the caller's six fields.
C4_CreateThenGetById ==
    (last.op = "create" /\ ~last.raised /\ Quiet) =>
        LET got == get_by_id(last.ret[1].id, TRUE) IN
        /\ got /= None
        /\ SameCallerFields(got[1], BookCreate(last.raw[1]))

\* C4, for reference: the round trip holds when no storage call has failed.
C4_RoundTripWithoutFailure ==
    (faults = 0 /\ last.op = "create" /\ ~last.raised /\ Quiet) =>
        LET got == get_by_id(last.ret[1].id, TRUE) IN
        /\ got /= None
        /\ SameCallerFields(got[1], BookCreate(last.raw[1]))

\* the records a load would have returned when the last call began
PreBooks ==
    LET pre == last.pre[1] IN
    IF backend = "db" THEN pre.rows
    ELSE IF backend = "file" /\ pre.fileState /= "ok" THEN << >>
    ELSE pre.doc.books

\* the last call was an update that found its record and returned
UpdateReturned ==
    last.op = "update" /\ last.found /= None /\ ~last.raised

C6_EmptyUpdateIsPersistedNoOp ==
    (faults = 0 /\ last.op = "update" /\ last.upd = Some(NoUpdate)
        /\ last.id \in SeqIds(PreBooks)) =>
        /\ ~last.raised
        /\ last.ret = last.found
        /\ last.persists = 1
        /\ StoredBooks = PreBooks

\* C7: even when no storage call fails, after an update that carries a new
\* title the persisted record still has the stored cover, description or
\* rating for which enrichment returned absent.
C7_AbsentEnrichmentKeepsStoredValues ==
    (faults = 0 /\ last.op = "update" /\ last.found /= None
        /\ last.upd[1].title \notin {NotSet, Null}
        /\ last.upd[1].title /= Val(last.found[1].title)) =>
        LET e == last.enrich[1]
            old == last.found[1]
            now == FindById(StoredBooks, last.id)
        IN
        /\ ~last.raised
        /\ now /= None
        /\ e[1] = None => Book(now[1]).cover_url = old.cover_url
        /\ e[2] = None => now[1].description = old.description
        /\ e[3] = None => now[1].rating = old.rating

\* C8: whenever delete(id) has returned True, a get_by_id(id) that follows
\* returns None and get_all has no record with that id.
C8_DeletedRecordIsGone ==
    (last.op = "delete" /\ last.ok /\ Quiet) =>
        /\ get_by_id(last.id, TRUE) = None
        /\ last.id \notin SeqIds(get_all(NoFilter, TRUE))

CaseClasses ==
    { {"Frank Herbert", "FRANK HERBERT", "frank herbert"},
      {"Frank", "frank"}, {"Herbert", "herbert"},
      {"Jane Austen", "jane austen"},
      {"Sci-Fi", "SCI-FI", "sci-fi"}, {"Sci", "sci"}, {"Novel", "novel"} }

SameIgnoringCase(a, b) == a = b \/ \E c \in CaseClasses : a \in c /\ b \in c

Range(s) == {s[i] : i \in 1..Len(s)}

\* the last call was a get_all whose slice takes the whole filtered list
WholeQuery ==
    /\ last.op = "get_all"
    /\ last.query[1].offset = 0
    /\ last.query[1].limit >= Len(StoredBooks)

\* C10 as stated: get_all returns a record exactly when it passes every
\* filter that was supplied, where a supplied author or genre must equal the
\* stored string up to letter case and a supplied availability must equal the
\* stored value.
C10_SuppliedFiltersAreExact ==
    WholeQuery =>
        LET q == last.query[1] IN
        \A i \in 1..Len(StoredBooks) :
            LET b == StoredBooks[i] IN
            Book(b) \in Range(last.ret) <=>
                /\ q.author /= None => SameIgnoringCase(b.author, q.author[1])
                /\ q.genre /= None => SameIgnoringCase(b.genre, q.genre[1])
                /\ q.availability /= None => b.availability = q.availability[1]

\* C10 as amended: the same, except that an author or genre filter supplied
\* as the empty string excludes nothing, like a filter that is not supplied;
\* and both branches of get_all give this result for the same records.
C10_NonEmptyFiltersAreExact ==
    WholeQuery =>
        LET q == last.query[1] IN
        /\ \A i \in 1..Len(StoredBooks) :
              LET b == StoredBooks[i] IN
              Book(b) \in Range(last.ret) <=>
                  /\ q.author \notin {None, Some("")} =>
                        SameIgnoringCase(b.author, q.author[1])
                  /\ q.genre \notin {None, Some("")} =>
                        SameIgnoringCase(b.genre, q.genre[1])
                  /\ q.availability /= None =>
                        b.availability = q.availability[1]
        /\ last.ret = GetAllDb(StoredBooks, q)
        /\ last.ret = GetAllJson(StoredBooks, q)

\* C10's case: an author filter in another case than the stored strings
\* returns the two records of that author and leaves out the record whose
\* author is a prefix of it and the record of another author
C10_Witness ==
    /\ WholeQuery
    /\ last.query[1].author = Some("frank herbert")
    /\ last.query[1].genre = None
    /\ last.query[1].availability = None
    /\ Len(StoredBooks) = 4
    /\ SeqIds(last.ret) = {1, 3}

\* the filters of query q, as C10 found them: an empty string filters nothing
Passes(b, q) ==
    /\ q.author \notin {None, Some("")} => SameIgnoringCase(b.author, q.author[1])
    /\ q.genre \notin {None, Some("")} => SameIgnoringCase(b.genre, q.genre[1])
    /\ q.availability /= None => b.availability = q.availability[1]

\* the stored records that pass the filters of q, in stored order
Filtered(q) == SelectSeq(StoredBooks, LAMBDA b : Passes(b, q))

\* C11: get_all returns the filtered records at positions offset+1 ..
\* offset+limit (as many of them as exist), in order: offset and limit count
\* records that passed the filters, never records that failed one.
C11_PageOfFilteredRecords ==
    last.op = "get_all" =>
        LET q == last.query[1]
            f == Filtered(q)
            n == Max(0, Min(q.limit, Len(f) - q.offset))
        IN
        /\ Len(last.ret) = n
        /\ \A k \in 1..n : last.ret[k] = Book(f[q.offset + k])

\* C11's case: with four records stored of which the first and third pass the
\* author filter, offset 1 and limit 1 return the third record: the second
\* record, which fails the filter, used up neither the offset nor the limit
C11_Witness ==
    /\ last.op = "get_all"
    /\ Len(StoredBooks) = 4
    /\ last.query[1].author = Some("frank herbert")
    /\ last.query[1].genre = None
    /\ last.query[1].availability = None
    /\ last.query[1].offset = 1
    /\ last.query[1].limit = 1
    /\ SeqIds(last.ret) = {3}

\* the last call was a title-changing update of a record that exists
TitleChangingUpdate ==
    /\ last.op = "update"
    /\ last.found /= None
    /\ last.upd[1].title \notin {NotSet, Null}
    /\ last.upd[1].title /= Val(last.found[1].title)

\* C12: whatever Open Library answered, create and title-changing update
\* return the record with the caller's fields and have persisted it.
C12_EnrichmentNeverFailsTheWrite ==
    /\ last.op = "create" =>
          /\ ~last.raised
          /\ last.ret /= << >>
          /\ SameCallerFields(last.ret[1], BookCreate(last.raw[1]))
          /\ get_by_id(last.ret[1].id, TRUE) /= None
          /\ SameCallerFields(get_by_id(last.ret[1].id, TRUE)[1], last.ret[1])
    /\ TitleChangingUpdate =>
          /\ ~last.raised
          /\ last.ret /= << >>
          /\ last.ret[1].title = last.upd[1].title[1][1]
          /\ get_by_id(last.id, TRUE) /= None
          /\ SameCallerFields(get_by_id(last.id, TRUE)[1], last.ret[1])

\* C13: when the search found a work whose details were fetched, the result
\* has the description the editions gave and the rating the ratings gave,
\* whatever happened while the cover was resolved; and it has the rating and
\* the cover whatever happened while the description was fetched.
C13_EnrichKeepsResolvedValues ==
    (last.resp /= None /\ last.resp[1].search = "doc"
        /\ last.resp[1].key = "work" /\ last.resp[1].details = "ok") =>
        LET r == last.resp[1]
            e == last.enrich[1]
        IN
        /\ r.editions = "text" => e[2] = Some("text-1")
        /\ r.ratings = "num" => e[3] = Some(42)
        /\ r.cover = "cover_i" => e[1] = Some("cover-1")

\* C14: create, update and delete never end with an exception, whatever the
\* outcome of their persist call.
C14_WritesNeverRaise ==
    last.op \in {"create", "update", "delete"} => ~last.raised

\* the last call was an update of a record that exists
UpdateFound == last.op = "update" /\ last.found /= None

\* C18: even when no storage call fails, an update calls enrichment exactly when it changes the title, and
\* then with the new title; an update without a title, or with the stored
\* title, makes no enrichment call and returns cover, description and rating
\* as stored.
C18_EnrichExactlyOnTitleChange ==
    (faults = 0 /\ UpdateFound) =>
        IF TitleChangingUpdate
        THEN /\ last.enrich /= None
             /\ last.asked = Some(last.upd[1].title[1][1])
        ELSE /\ last.enrich = None
             /\ last.ret /= << >> =>
                   /\ last.ret[1].cover_url = last.found[1].cover_url
                   /\ last.ret[1].description = last.found[1].description
                   /\ last.ret[1].rating = last.found[1].rating

\* an update whose only key is one field set to null
SingleNull(upd) == \E f \in UpdateFields : upd = [NoUpdate EXCEPT ![f] = Null]

\* C19: even when no storage call fails, an update whose only key is a field set to null behaves as the update
\* with no key: it makes no enrichment call and, when it returns, returns the
\* record as stored.
C19_NullIsAbsent ==
    (faults = 0 /\ UpdateFound /\ SingleNull(last.upd[1])) =>
        /\ last.enrich = None
        /\ last.asked = None
        /\ last.ret /= << >> => last.ret = last.found

\* C20: when no storage call fails, the record create returns and the record
\* it has persisted hold each field of the enrichment result with exactly the
\* returned value, a rating of 0 and an empty description included, and hold
\* absent for each absent field.
C20_CreateStoresEnrichmentResult ==
    (faults = 0 /\ last.op = "create" /\ ~last.raised /\ Quiet) =>
        LET e == last.enrich[1]
            new == last.ret[1]
            now == get_by_id(new.id, TRUE)
        IN
        /\ new.cover_url = IF e[1] = None THEN None ELSE Some(UrlValue(e[1][1]))
        /\ new.description = e[2]
        /\ new.rating = e[3]
        /\ now = last.ret

\* the load of the one call could not get the stored collection: the file
\* was not in order, or the request to the bin used up the failure
LoadFailed ==
    \/ backend = "file" /\ last.pre[1].fileState /= "ok"
    \/ backend = "jsonbin" /\ faults = MaxFaults

\* C15: a get_all or get_by_id on the File or Hosted-Document backend whose
\* load could not get the stored collection does not raise and returns the
\* empty list, respectively absent.
C15_FailedLoadReadsAsEmpty ==
    (last.op \in {"get_all", "get_by_id"} /\ LoadFailed) =>
        /\ ~last.raised
        /\ last.ret = << >>

\* C16: when no storage call fails, the five calls of the scenario return, in
\* order: a record with id 1 and availability available; the record with the
\* same id, title and author and availability borrowed; a list of exactly
\* that record; True; absent.
C16_ScenarioResults ==
    faults = 0 =>
    /\ last.op = "create" =>
          /\ last.ret /= << >>
          /\ last.ret[1].id = 1
          /\ last.ret[1].availability = AVAILABLE
    /\ last.op = "update" =>
          /\ last.ret /= << >>
          /\ last.ret[1].id = 1
          /\ last.ret[1].title = "Dune"
          /\ last.ret[1].author = "Frank Herbert"
          /\ last.ret[1].availability = BORROWED
    /\ last.op = "get_all" =>
          /\ ~last.raised
          /\ Len(last.ret) = 1
          /\ last.ret[1].id = 1
          /\ last.ret[1].title = "Dune"
          /\ last.ret[1].author = "Frank Herbert"
          /\ last.ret[1].availability = BORROWED
    /\ last.op = "delete" => last.ok
    /\ last.op = "get_by_id" => ~last.raised /\ last.ret = << >>

\* worker p is at the full-collection save that ends its call
AtSave(p) == pc[p] \in {"create_save", "update_save", "delete_save"}

\* C17: on the JSON backends the save that ends a mutating call replaces the
\* whole persisted collection by the collection that call loaded and
\* modified, whatever other calls have saved since that load: the last write
\* wins.
C17_LastWriteWins ==
    [][\A p \in Procs :
          (AtSave(p) /\ pc'[p] = "idle" /\ JsonSerializable(loc[p].data)) =>
              doc' = loc[p].data]_vars

\* C17's case: a create and a delete of a stored record have both returned
\* success, and the persisted collection holds the created record and still
\* holds the deleted one: the delete's effect is lost
C17_Witness ==
    /\ Quiet
    /\ Len(created) = 1
    /\ deleted /= {}
    /\ created[1] \in SeqIds(StoredBooks)
    /\ deleted \subseteq SeqIds(StoredBooks)

\* the query of the one call on the table failed
QueryFailed == faults = MaxFaults

\* C21: on the relational backend the id that create takes is the greatest id
\* among the stored rows plus one, 1 when the table is empty and 1 when the
\* query fails; a get_by_id whose query fails does not raise and returns
\* absent, as it does for an id that no row has, and otherwise returns the
\* row with that id.
C21_NextIdAndLookupDefaults ==
    /\ (backend = "db" /\ pc[1] = "create_enrich") =>
          IF QueryFailed \/ rows = << >>
          THEN loc[1].next_id = 1
          ELSE \E m \in SeqIds(rows) :
                  /\ \A k \in SeqIds(rows) : k <= m
                  /\ loc[1].next_id = m + 1
    /\ (backend = "db" /\ last.op = "get_by_id") =>
          /\ ~last.raised
          /\ IF QueryFailed \/ last.id \notin SeqIds(rows)
             THEN last.ret = None
             ELSE /\ last.ret /= None
                  /\ last.ret[1].id = last.id
                  /\ \E i \in 1..Len(rows) : last.ret[1] = Book(rows[i])

\* C21's case: the table holds two rows with ids 2 and 4, the query works,
\* and create takes 5: one more than the greatest id, not the number of rows
\* plus one
C21_Witness ==
    /\ backend = "db"
    /\ pc[1] = "create_enrich"
    /\ ~QueryFailed
    /\ SeqIds(rows) = {2, 4}
    /\ loc[1].next_id = 5

\* the last call made an enrichment whose search found a document
Looked == last.resp /= None /\ last.resp[1].search = "doc"

C23_NoResultMeansAbsentAndNoRequest ==
    (last.resp /= None /\ last.resp[1].search \in {"error", "empty"}) =>
        /\ last.enrich = Some(<<None, None, None>>)
        /\ RequestsIssued(last.resp[1]) = {"search"}
        /\ (last.op = "create" /\ last.ret /= << >>) =>
              /\ last.ret[1].cover_url = None
              /\ last.ret[1].description = None
              /\ last.ret[1].rating = None

\* C23's case: a create whose search found no document, although the other
\* requests would have been answered: the record has no cover, description
\* or rating
C23_Witness ==
    /\ last.op = "create"
    /\ last.resp /= None
    /\ last.resp[1].search = "empty"
    /\ last.resp[1].key = "work"
    /\ last.resp[1].cover = "cover_i"
    /\ last.resp[1].details = "ok"
    /\ last.resp[1].ratings = "num"
    /\ last.enrich = Some(<<None, None, None>>)
    /\ last.ret /= << >>
    /\ last.ret[1].cover_url = None

\* C24: whenever the search found a document with a work key and the ratings
\* of the work have an average, the enrichment returns that average as the
\* rating, also when the request for the work's details or for its editions
\* failed or gave nothing (the document's cover data being of the usual
\* shape).
C24_RatingWheneverAverage ==
    (Looked /\ last.resp[1].key = "work" /\ last.resp[1].ratings = "num"
        /\ last.resp[1].cover /= "edition_object") =>
        last.enrich[1][3] = Some(42)

\* the id of the record the last call was about: the id it was given, or the
\* id of the record create returned
Target ==
    IF last.op = "create"
    THEN (IF last.ret = << >> THEN 0 ELSE last.ret[1].id)
    ELSE last.id

\* C25, on the Hosted-Document backend: after create, update or delete,
\* every record that was stored when the call began and whose id is not the
\* call's is still in the persisted collection, with every field unchanged,
\* also when a load inside the call fell back to the empty collection.
C25_OtherRecordsUntouched ==
    (backend = "jsonbin" /\ last.op \in {"create", "update", "delete"}) =>
        \A i \in 1..Len(PreBooks) :
            PreBooks[i].id /= Target => PreBooks[i] \in Range(StoredBooks)

\* C26, on the Hosted-Document backend: every step of create, update and
\* delete leaves the persisted next_id greater than the id of every persisted
\* record and not smaller than it was, also when a load inside the call fell
\* back to the empty collection.
C26_CounterAboveIdsAndMonotone ==
    [][backend = "jsonbin" =>
          /\ doc'.next_id >= doc.next_id
          /\ \A i \in 1..Len(doc'.books) : doc'.books[i].id < doc'.next_id]_vars

\* C27 as stated: on every backend, when an update that had found its record
\* finishes after the delete of the same id has returned True, the record is
\* not in the collection.
C27_UpdateNeverRevives ==
    (Quiet /\ last.op = "update" /\ last.found /= None /\ last.id \in deleted) =>
        last.id \notin SeqIds(StoredBooks)

\* C27 as amended: the delete that returns True has removed the record; on
\* the relational backend a racing update never brings it back; on the JSON
\* backends it comes back in one way only, by the full-collection save of a
\* call (an update of that id or of another, or another delete) whose load
\* had taken place before the delete's save, and an update that loads after
\* the delete's save persists nothing for its id.
C27_UpdateRevivesOnlyFromStaleLoad ==
    [][/\ \A id \in deleted' \ deleted : id \notin SeqIds(StoredBooks')
       /\ \A id \in deleted :
             (id \notin SeqIds(StoredBooks) /\ id \in SeqIds(StoredBooks')) =>
                 /\ backend /= "db"
                 /\ \E p \in Procs :
                       /\ AtSave(p)
                       /\ pc'[p] = "idle"
                       /\ id \in SeqIds(loc[p].data.books)
       /\ \A p \in Procs :
             (pc[p] = "update_load" /\ pc'[p] = "update_save"
                 /\ loc[p].id \notin SeqIds(StoredBooks)) =>
                 loc[p].id \notin SeqIds(loc'[p].data.books)]_vars

\* C27's case: on the relational backend an update found record 2, the
\* delete of record 2 then removed the row and returned True, and the update
\* finished after it, returning the record: the row is not back
C27_Witness ==
    /\ backend = "db"
    /\ Quiet
    /\ deleted = {2}
    /\ last.op = "update"
    /\ last.id = 2
    /\ last.ret /= << >>
    /\ 2 \notin SeqIds(rows)

\* C28: a get_all or get_by_id makes no persist call and leaves what is
\* persisted (the file, the document with its records and next_id, the rows)
\* exactly as it was when the call began, on every backend and also when its
\* load fell back to the empty collection or raised.
C28_ReadsChangeNothing ==
    last.op \in {"get_all", "get_by_id"} =>
        /\ last.persists = 0
        /\ Persisted = last.pre[1]

\* C28's case: on the Hosted-Document backend a get_all without filters whose
\* load failed returned the empty list, and the stored records are still
\* there
C28_Witness ==
    /\ backend = "jsonbin"
    /\ last.op = "get_all"
    /\ last.query = Some(NoFilter)
    /\ last.ret = << >>
    /\ doc.books /= << >>
    /\ doc = last.pre[1].doc

\* the ids of a list of records, in the list's order
IdsOf(books) == [i \in 1..Len(books) |-> books[i].id]

\* s can be obtained from t by leaving elements out
RECURSIVE IsSubSeq(_, _)
IsSubSeq(s, t) ==
    IF s = << >> THEN TRUE
    ELSE IF t = << >> THEN FALSE
    ELSE IF Head(s) = Head(t) THEN IsSubSeq(Tail(s), Tail(t))
    ELSE IsSubSeq(s, Tail(t))

C30_SliceWithinLimitAndPastOffset ==
    last.op = "get_all" =>
        LET q == last.query[1]
            f == Filtered(q)
        IN
        /\ Len(last.ret) <= Max(q.limit, 0)
        /\ \A k \in 1..Min(Max(q.offset, 0), Len(f)) :
              Book(f[k]) \notin Range(last.ret)

====
